---- MODULE Spec2Model ----
(***************************************************************************)
(* Model of the caret of the rim editor (src/src/caret.rs): the caret's    *)
(* position in a text buffer, the adjust operation, and the conversions    *)
(* between buffer columns and screen columns.                              *)
(*                                                                         *)
(* A character is modelled by a one-letter string that stands for its      *)
(* display class: "a" occupies one cell, "w" two cells, "z" none (a        *)
(* combining or control character), and "\n" is the line terminator.       *)
(* A buffer is a sequence of lines, a line the sequence of its characters, *)
(* its terminator included.  Lines and columns count from 0 as in the      *)
(* source; TLA+ sequences count from 1.                                    *)
(***************************************************************************)
EXTENDS Integers, Sequences, FiniteSets, TLC

\* The buffer holds at most MaxChars characters, line terminators included.
MaxChars == 4

\* A buffer of single-cell characters only holds at most MaxUniformChars.
MaxUniformChars == 6

VARIABLES
  buffer,        \* the buffer the caret is adjusted against (fixed)
  line,          \* Caret.line
  column,        \* Caret.column
  saved_column,  \* Caret.saved_column: None or Some(screen column)
  status,        \* "ok", or "panicked" once an unwrap() of None aborted
  adjustment,    \* history: the last request given to adjust
  before,        \* history: the caret as the last request found it
  trail,         \* history: the requests of the sequence being followed
  origin,        \* history: the caret as the first request of trail found it
  conversion     \* history: the last calls of the column conversions

vars ==
  <<buffer, line, column, saved_column, status, adjustment, before, trail,
    origin, conversion>>

---------------------------------------------------------------------------
\* Option<T>

None == <<>>

Some(v) == <<v>>

is_some(o) == o # None

unwrap(o) == o[1]

unwrap_or(o, d) == IF is_some(o) THEN unwrap(o) ELSE d

Max(a, b) == IF a >= b THEN a ELSE b

Min(a, b) == IF a <= b THEN a ELSE b

---------------------------------------------------------------------------
\* Characters and buffers

NL == "\n"

Chars == {"a", "w", "z"}

\* c.width(false): None for a control character such as the terminator
char_width(c) ==
  CASE c = "a" -> Some(1)
    [] c = "w" -> Some(2)
    [] c = "z" -> Some(0)
    [] OTHER   -> None

TextsOf(chars, n) == UNION {[1..k -> chars \cup {NL}] : k \in 0..n}

\* the lines of a text: each terminator ends a line
RECURSIVE SplitLines(_, _)
SplitLines(text, cur) ==
  IF text = <<>> THEN <<cur>>
  ELSE IF Head(text) = NL
       THEN <<Append(cur, NL)>> \o SplitLines(Tail(text), <<>>)
       ELSE SplitLines(Tail(text), Append(cur, Head(text)))

\* A text that ends with a terminator is held either with or without an
\* empty last line; a buffer always has at least one line.
BuffersOf(texts) ==
  LET split == {SplitLines(t, <<>>) : t \in texts}
      ended == {b \in split : Len(b) > 1 /\ b[Len(b)] = <<>>}
  IN  split \cup {SubSeq(b, 1, Len(b) - 1) : b \in ended}

Buffers == BuffersOf(TextsOf(Chars, MaxChars))

UniformBuffers == BuffersOf(TextsOf({"a"}, MaxUniformChars))

num_lines(buf) == Len(buf)

\* the character count of line l, its terminator included (the caret of the
\* test stops at the last character only on the line that lacks one)
line_length(l, buf) == IF l < Len(buf) THEN Some(Len(buf[l + 1])) ELSE None

\* buffer.line_iter().from(l).next(): the characters of line l
line_chars(l, buf) == IF l < Len(buf) THEN Some(buf[l + 1]) ELSE None

---------------------------------------------------------------------------
\* Column conversions

RECURSIVE sum_widths(_)
sum_widths(chars) ==
  IF chars = <<>> THEN 0
  ELSE unwrap_or(char_width(Head(chars)), 0) + sum_widths(Tail(chars))

\* mutant: the characters from the column on, not those before it
skip(chars, n) == SubSeq(chars, Min(n, Len(chars)) + 1, Len(chars))

take(chars, n) == SubSeq(chars, 1, Min(n, Len(chars)))

\* sums up the widths of the characters before the given buffer column
buffer_to_screen_column(l, col, buf) ==
  LET chars == line_chars(l, buf)
  IN  IF is_some(chars) THEN sum_widths(take(unwrap(chars), col)) ELSE 0

\* mutant: the terminator is scanned like any character
filter_nothing(chars) == chars

filter_newline(chars) == SelectSeq(chars, LAMBDA c : c # NL)

\* mutant: a character counts as soon as it starts at or before the column
RECURSIVE scan_count_by_start(_, _, _)
scan_count_by_start(chars, sum, screen_column) ==
  IF chars = <<>> THEN 0
  ELSE IF sum <= screen_column
       THEN 1 + scan_count_by_start(Tail(chars),
                  sum + unwrap_or(char_width(Head(chars)), 0), screen_column)
       ELSE 0

\* mutant: a character counts only when it ends before the column
RECURSIVE scan_count_strict(_, _, _)
scan_count_strict(chars, sum, screen_column) ==
  IF chars = <<>> THEN 0
  ELSE LET s == sum + unwrap_or(char_width(Head(chars)), 0)
       IN  IF s < screen_column
           THEN 1 + scan_count_strict(Tail(chars), s, screen_column)
           ELSE 0

\* scan(0, ..).take_while(sum <= screen_column).count()
RECURSIVE scan_count(_, _, _)
scan_count(chars, sum, screen_column) ==
  IF chars = <<>> THEN 0
  ELSE LET s == sum + unwrap_or(char_width(Head(chars)), 0)
       IN  IF s <= screen_column
           THEN 1 + scan_count(Tail(chars), s, screen_column)
           ELSE 0

\* mutant: a missing line counts as an empty one
screen_to_buffer_column_or_zero(row, screen_column, buf) ==
  LET chars == line_chars(row, buf)
  IN  IF is_some(chars)
      THEN Some(scan_count(filter_newline(unwrap(chars)), 0, screen_column))
      ELSE Some(0)

\* scans a line, counting characters up to the given screen column
screen_to_buffer_column(row, screen_column, buf) ==
  LET chars == line_chars(row, buf)
  IN  IF is_some(chars)
      THEN Some(scan_count(filter_newline(unwrap(chars)), 0, screen_column))
      ELSE None

---------------------------------------------------------------------------
\* Caret

Panic == [panic |-> TRUE]

Moved(l, c, s) == [panic |-> FALSE, line |-> l, column |-> c, saved_column |-> s]

\* mutant: the saved column is not consulted
vertical_ignoring_saved(from_line, to_line, col, saved, buf) ==
  IF ~is_some(line_length(to_line, buf)) THEN Panic
  ELSE
    LET to_line_length == unwrap(line_length(to_line, buf))
        to_line_screen_length == buffer_to_screen_column(to_line, to_line_length, buf)
        max_column == Max(0, to_line_screen_length - 1)
        desired_column == buffer_to_screen_column(from_line, col, buf)
        screen_column == Min(max_column, desired_column)
        buffer_column == unwrap(screen_to_buffer_column(to_line, screen_column, buf))
    IN  Moved(to_line, buffer_column,
              IF buffer_column = desired_column THEN None ELSE Some(desired_column))

\* mutant: the desired column is never saved
vertical_never_saving(from_line, to_line, col, saved, buf) ==
  IF ~is_some(line_length(to_line, buf)) THEN Panic
  ELSE
    LET to_line_length == unwrap(line_length(to_line, buf))
        to_line_screen_length == buffer_to_screen_column(to_line, to_line_length, buf)
        max_column == Max(0, to_line_screen_length - 1)
        desired_column == unwrap_or(saved, buffer_to_screen_column(from_line, col, buf))
        screen_column == Min(max_column, desired_column)
        buffer_column == unwrap(screen_to_buffer_column(to_line, screen_column, buf))
    IN  Moved(to_line, buffer_column, None)

\* mutant: the cell past the last one of the line can be reached
vertical_past_last_cell(from_line, to_line, col, saved, buf) ==
  IF ~is_some(line_length(to_line, buf)) THEN Panic
  ELSE
    LET to_line_length == unwrap(line_length(to_line, buf))
        to_line_screen_length == buffer_to_screen_column(to_line, to_line_length, buf)
        max_column == Max(0, to_line_screen_length)
        desired_column == unwrap_or(saved, buffer_to_screen_column(from_line, col, buf))
        screen_column == Min(max_column, desired_column)
        buffer_column == unwrap(screen_to_buffer_column(to_line, screen_column, buf))
    IN  Moved(to_line, buffer_column,
              IF buffer_column = desired_column THEN None ELSE Some(desired_column))

\* helper of adjust: restricts the caret column to valid character
\* positions in screen space
vertical_caret_movement(from_line, to_line, col, saved, buf) ==
  IF ~is_some(line_length(to_line, buf)) THEN Panic
  ELSE
    LET to_line_length == unwrap(line_length(to_line, buf))
        to_line_screen_length == buffer_to_screen_column(to_line, to_line_length, buf)
        max_column == Max(0, to_line_screen_length - 1)
        desired_column == unwrap_or(saved, buffer_to_screen_column(from_line, col, buf))
        screen_column == Min(max_column, desired_column)
        buffer_column == unwrap(screen_to_buffer_column(to_line, screen_column, buf))
    IN  Moved(to_line, buffer_column,
              IF buffer_column = desired_column THEN None ELSE Some(desired_column))

\* mutant: the column stops at 1
char_prev_floor_one(l, col) == Moved(l, Max(1, col - 1), None)

char_prev(l, col) == Moved(l, Max(0, col - 1), None)

\* mutant: the column is not clamped to the line
char_next_unclamped(l, col, buf) ==
  IF ~is_some(line_length(l, buf)) THEN Panic
  ELSE Moved(l, col + 1, None)

\* mutant: the last column is taken one too small
char_next_short(l, col, buf) ==
  IF ~is_some(line_length(l, buf)) THEN Panic
  ELSE LET max_column == Max(0, unwrap(line_length(l, buf)) - 2)
       IN  Moved(l, Min(max_column, col + 1), None)

\* mutant: the last column is taken one too large
char_next_to_length(l, col, buf) ==
  IF ~is_some(line_length(l, buf)) THEN Panic
  ELSE LET max_column == Max(0, unwrap(line_length(l, buf)))
       IN  Moved(l, Min(max_column, col + 1), None)

char_next(l, col, buf) ==
  IF ~is_some(line_length(l, buf)) THEN Panic
  ELSE LET max_column == Max(0, unwrap(line_length(l, buf)) - 1)
       IN  Moved(l, Min(max_column, col + 1), None)

line_up(l, col, saved, buf) ==
  IF l = 0 THEN Moved(l, col, saved)
  ELSE vertical_caret_movement(l, l - 1, col, saved, buf)

\* mutant: the last line is taken one too large
line_down_past_last(l, col, saved, buf) ==
  LET max_line == Max(0, num_lines(buf))
  IN  IF l = max_line THEN Moved(l, col, saved)
      ELSE vertical_caret_movement(l, l + 1, col, saved, buf)

line_down(l, col, saved, buf) ==
  LET max_line == Max(0, num_lines(buf) - 1)
  IN  IF l = max_line THEN Moved(l, col, saved)
      ELSE vertical_caret_movement(l, l + 1, col, saved, buf)

\* the match of adjust: the new (line, column, saved column), or a panic
new_position(adj, l, col, saved, buf) ==
  CASE adj.kind = "CharPrev" -> char_prev(l, col)
    [] adj.kind = "CharNext" -> char_next(l, col, buf)
    [] adj.kind = "LineUp"   -> line_up(l, col, saved, buf)
    [] adj.kind = "LineDown" -> line_down(l, col, saved, buf)
    [] adj.kind = "Set"      -> Moved(adj.line, adj.column, None)

\* mutant: the caret is always written
position_always_written(l, col, new) == TRUE

\* the caret is written only when the position changes
position_changed(l, col, new) == l # new.line \/ col # new.column

Caret(l, c, s) == [line |-> l, column |-> c, saved_column |-> s]

---------------------------------------------------------------------------
\* History of the sequence of requests being followed: n LineDown then at
\* most n LineUp (a vertical round trip), CharNext then CharPrev, or
\* CharPrev then CharNext.  A request that does not continue the sequence
\* starts a new one.

IsRoundTrip(t, buf) ==
  \E n \in 1..Len(t) :
    /\ n < num_lines(buf)
    /\ Len(t) - n <= n
    /\ \A i \in 1..Len(t) : t[i] = IF i <= n THEN "LineDown" ELSE "LineUp"

Followed(t, buf) ==
  \/ t \in {<<"CharNext">>, <<"CharPrev">>,
            <<"CharNext", "CharPrev">>, <<"CharPrev", "CharNext">>}
  \/ IsRoundTrip(t, buf)

follow(adj) ==
  IF Followed(Append(trail, adj.kind), buffer)
  THEN /\ trail' = Append(trail, adj.kind)
       /\ origin' = IF trail = <<>> THEN Caret(line, column, saved_column) ELSE origin
  ELSE /\ trail' = IF Followed(<<adj.kind>>, buffer) THEN <<adj.kind>> ELSE <<>>
       /\ origin' = Caret(line, column, saved_column)

---------------------------------------------------------------------------

\* Caret::adjust
adjust(adj) ==
  /\ adjustment' = adj
  /\ before' = Caret(line, column, saved_column)
  /\ follow(adj)
  /\ UNCHANGED <<buffer, conversion>>
  /\ LET new == new_position(adj, line, column, saved_column, buffer)
     IN  IF new.panic
         THEN /\ status' = "panicked"
              /\ UNCHANGED <<line, column, saved_column>>
         ELSE /\ status' = "ok"
              /\ IF position_changed(line, column, new)
                 THEN /\ line' = new.line
                      /\ column' = new.column
                      /\ saved_column' = new.saved_column
                 ELSE UNCHANGED <<line, column, saved_column>>

Request(k) == [kind |-> k, line |-> 0, column |-> 0]

SetRequest(l, c) == [kind |-> "Set", line |-> l, column |-> c]

\* Caret::new()
NewCaret ==
  /\ line = 0
  /\ column = 0
  /\ saved_column = None
  /\ status = "ok"
  /\ adjustment = Request("None")
  /\ before = Caret(0, 0, None)
  /\ trail = <<>>
  /\ origin = Caret(0, 0, None)
  /\ conversion = <<>>

Init == buffer \in Buffers /\ NewCaret

InitUniform == buffer \in UniformBuffers /\ NewCaret

\* a panic aborts the program: no request follows it
CharPrev == status = "ok" /\ adjust(Request("CharPrev"))

CharNext == status = "ok" /\ adjust(Request("CharNext"))

LineUp == status = "ok" /\ adjust(Request("LineUp"))

LineDown == status = "ok" /\ adjust(Request("LineDown"))

\* the targets of Set: every position of the buffer, the column one past
\* each line's length, and the line one past the last
SetTargets(buf) ==
  UNION {{<<l, c>> : c \in 0..unwrap_or(line_length(l, buf), 0) + 1} :
           l \in 0..num_lines(buf)}

ValidPosition(l, c, buf) ==
  /\ l < num_lines(buf)
  /\ c <= unwrap(line_length(l, buf))

Set ==
  /\ status = "ok"
  /\ \E t \in SetTargets(buffer) : adjust(SetRequest(t[1], t[2]))

\* Set as a caller that keeps the documented precondition uses it
SetValid ==
  /\ status = "ok"
  /\ \E t \in SetTargets(buffer) :
       /\ ValidPosition(t[1], t[2], buffer)
       /\ adjust(SetRequest(t[1], t[2]))

Next == CharPrev \/ CharNext \/ LineUp \/ LineDown \/ Set

Spec == Init /\ [][Next]_vars

NextValid == CharPrev \/ CharNext \/ LineUp \/ LineDown \/ SetValid

SpecValid == Init /\ [][NextValid]_vars

SpecUniform == InitUniform /\ [][Next]_vars

---------------------------------------------------------------------------
\* The conversions as the editor calls them, on any line index and column:
\* the lines of the buffer and the index one past the last, the columns of
\* the line and one past its length.

CaretVars == <<buffer, line, column, saved_column, status, adjustment, before, trail, origin>>

ConversionArgs(buf) ==
  UNION {{<<l, c>> : c \in 0..2 * unwrap_or(line_length(l, buf), 0) + 1} :
           l \in 0..num_lines(buf)}

Call(f, l, arg, res) == [fn |-> f, line |-> l, arg |-> arg, result |-> res]

BufferToScreen ==
  /\ \E t \in ConversionArgs(buffer) :
       conversion' = <<Call("buffer_to_screen_column", t[1], t[2],
                            buffer_to_screen_column(t[1], t[2], buffer))>>
  /\ UNCHANGED CaretVars

ScreenToBuffer ==
  /\ \E t \in ConversionArgs(buffer) :
       conversion' = <<Call("screen_to_buffer_column", t[1], t[2],
                            screen_to_buffer_column(t[1], t[2], buffer))>>
  /\ UNCHANGED CaretVars

\* the screen column a call of buffer_to_screen_column returned, converted
\* back on the same line
ScreenToBufferBack ==
  /\ Len(conversion) \in {1, 3}
  /\ conversion[Len(conversion)].fn = "buffer_to_screen_column"
  /\ LET last == conversion[Len(conversion)]
     IN  conversion' =
           Append(conversion,
                  Call("screen_to_buffer_column", last.line, last.result,
                       screen_to_buffer_column(last.line, last.result, buffer)))
  /\ UNCHANGED CaretVars

\* after a column went to the screen and back, another column of the same
\* line is converted
BufferToScreenAgain ==
  /\ Len(conversion) = 2
  /\ conversion[1].fn = "buffer_to_screen_column"
  /\ \E t \in ConversionArgs(buffer) :
       /\ t[1] = conversion[1].line
       /\ conversion' =
            Append(conversion,
                   Call("buffer_to_screen_column", t[1], t[2],
                        buffer_to_screen_column(t[1], t[2], buffer)))
  /\ UNCHANGED CaretVars

NextConvert ==
  BufferToScreen \/ ScreenToBuffer \/ ScreenToBufferBack \/ BufferToScreenAgain

SpecConvert == Init /\ [][NextConvert]_vars

---------------------------------------------------------------------------
\* Properties

Now == Caret(line, column, saved_column)

Vertical == {"LineUp", "LineDown"}

Horizontal == {"CharPrev", "CharNext"}

\* the characters of line l other than its terminator
text_of(l) == SelectSeq(buffer[l + 1], LAMBDA c : c \in Chars)

width_at(l, i) == unwrap_or(char_width(buffer[l + 1][i + 1]), 0)

screen_column_of(c) == buffer_to_screen_column(c.line, c.column, buffer)

OriginValid == ValidPosition(origin.line, origin.column, buffer)

OriginLength == unwrap(line_length(origin.line, buffer))

DownsThenUps(t, n) ==
  /\ Len(t) = 2 * n
  /\ \A i \in 1..Len(t) : t[i] = IF i <= n THEN "LineDown" ELSE "LineUp"

Uniform(buf) == \A l \in 1..Len(buf) : \A i \in 1..Len(buf[l]) : buf[l][i] \in {"a", NL}

\* C1: when every Set target is a position of the buffer, the caret is
\* always on a line of the buffer and at a column not beyond the line's
\* length.  (SpecValid)
C1_PositionValid ==
  /\ line < num_lines(buffer)
  /\ column <= unwrap(line_length(line, buffer))

\* a vertical move onto a shorter line, which had to shorten the column
C1_Witness ==
  /\ adjustment.kind \in Vertical
  /\ line # before.line
  /\ column < before.column
  /\ is_some(saved_column)
  /\ C1_PositionValid

\* C2: after every CharPrev or CharNext request that returns, the saved
\* column is absent.  (SpecValid)
C2_HorizontalClearsSaved ==
  (status = "ok" /\ adjustment.kind \in Horizontal) => saved_column = None

\* C3: after every Set(l, c) the caret is at (l, c), unclamped, and the
\* saved column is absent.
C3_SetResult ==
  adjustment.kind = "Set" =>
    /\ line = adjustment.line
    /\ column = adjustment.column
    /\ saved_column = None

\* the case of C4: a valid caret without saved column, at a screen column
\* greater than 0, above a blank line
C4_Case ==
  /\ status = "ok"
  /\ OriginValid
  /\ origin.saved_column = None
  /\ screen_column_of(origin) > 0
  /\ origin.line + 1 < num_lines(buffer)
  /\ text_of(origin.line + 1) = <<>>

C4_Result ==
  /\ trail = <<"LineDown">> =>
       /\ line = origin.line + 1
       /\ column = 0
       /\ saved_column = Some(screen_column_of(origin))
  /\ trail = <<"LineDown", "LineUp">> =>
       /\ line = origin.line
       /\ column = origin.column

\* the caret is on a character (not on or past the terminator) that
\* occupies at least one cell
C4_OnCharacter ==
  /\ origin.column < Len(text_of(origin.line))
  /\ width_at(origin.line, origin.column) > 0

\* C4 as claimed: from every valid position at a screen column s > 0 above
\* a blank line, LineDown gives (l+1, 0) with saved column s and LineUp
\* then gives (l, c) back.
C4_Original == C4_Case => C4_Result

\* C4 as amended: the same, from a position on a character of non-zero
\* width.
C4_BlankLineRoundTrip == (C4_Case /\ C4_OnCharacter) => C4_Result

C4_Witness ==
  /\ C4_Case
  /\ C4_OnCharacter
  /\ trail = <<"LineDown", "LineUp">>
  /\ Now = Caret(origin.line, origin.column, None)

\* C5: in a buffer of single-cell characters, from a caret without saved
\* column at column 0 or on a character, n LineDown that stay within the
\* buffer and then n LineUp bring the caret back to where it was.
\* (SpecUniform)
C5_RoundTrip ==
  \A n \in 1..num_lines(buffer) :
    ( /\ Uniform(buffer)
      /\ status = "ok"
      /\ DownsThenUps(trail, n)
      /\ OriginValid
      /\ origin.saved_column = None
      /\ origin.column = 0 \/ origin.column < Len(text_of(origin.line))
      /\ origin.line + n <= num_lines(buffer) - 1 )
    => (line = origin.line /\ column = origin.column)

\* down twice through lines each shorter than the one before, and back
C5_Witness ==
  /\ Uniform(buffer)
  /\ status = "ok"
  /\ DownsThenUps(trail, 2)
  /\ OriginValid
  /\ origin.saved_column = None
  /\ origin.line + 2 <= num_lines(buffer) - 1
  /\ origin.column < Len(text_of(origin.line))
  /\ Len(text_of(origin.line + 1)) < origin.column
  /\ Len(text_of(origin.line + 2)) < Len(text_of(origin.line + 1))
  /\ line = origin.line
  /\ column = origin.column

\* C6: LineUp on line 0 and LineDown on the last line return and leave
\* line, column and saved column as they were.
C6_BoundaryNoOp ==
  ( \/ adjustment.kind = "LineUp" /\ before.line = 0
    \/ adjustment.kind = "LineDown" /\ before.line = num_lines(buffer) - 1 )
  => (status = "ok" /\ Now = before)

\* LineDown on the last line with a saved column present
C6_Witness ==
  /\ adjustment.kind = "LineDown"
  /\ before.line = num_lines(buffer) - 1
  /\ is_some(before.saved_column)
  /\ Now = before

\* the case of C7: CharNext then CharPrev from a valid position of a
\* non-empty line
C7_Case ==
  /\ status = "ok"
  /\ trail = <<"CharNext", "CharPrev">>
  /\ OriginValid
  /\ OriginLength >= 1

\* C7 as claimed: CharNext then CharPrev leaves the column as it was.
C7_Original == C7_Case => column = origin.column

\* C7 as amended: it does from column 0 and from every column before the
\* last one (column < line_length - 1).
C7_NextPrev ==
  (C7_Case /\ (origin.column = 0 \/ origin.column < OriginLength - 1))
  => column = origin.column

C7_Witness ==
  /\ C7_Case
  /\ origin.column > 0
  /\ origin.column < OriginLength - 1
  /\ before.column = origin.column + 1
  /\ column = origin.column

\* the case of C8: CharPrev then CharNext from a valid position with
\* column > 0
C8_Case ==
  /\ status = "ok"
  /\ trail = <<"CharPrev", "CharNext">>
  /\ OriginValid
  /\ OriginLength >= 1
  /\ origin.column > 0

\* C8 as claimed: CharPrev then CharNext leaves the column as it was, up to
\* and including column = line_length.
C8_Original == C8_Case => column = origin.column

\* C8 as amended: it does up to and including the last column
\* (column <= line_length - 1), not from the end-of-line position.
C8_PrevNext == (C8_Case /\ origin.column <= OriginLength - 1) => column = origin.column

C8_Witness ==
  /\ C8_Case
  /\ origin.column = OriginLength - 1
  /\ before.column = origin.column - 1
  /\ column = origin.column

\* a LineUp or LineDown that changed the line
VerticalMoved ==
  /\ status = "ok"
  /\ adjustment.kind \in Vertical
  /\ line # before.line

\* the screen column such a move aimed for on the line it reached
TargetScreenColumn ==
  Min(Max(0, sum_widths(buffer[line + 1]) - 1),
      unwrap_or(before.saved_column, screen_column_of(before)))

\* the character at index i of the caret's line occupies two cells, and
\* screen column t is one of them
InsideWide(i, t) ==
  /\ buffer[line + 1][i + 1] = "w"
  /\ LET start == sum_widths(take(buffer[line + 1], i))
     IN  start <= t /\ t <= start + 1

\* ... and t is the second of them: a caret there would split it
SecondCellOfWide(i, t) ==
  /\ buffer[line + 1][i + 1] = "w"
  /\ t = sum_widths(take(buffer[line + 1], i)) + 1

\* C9 as claimed: when the target screen column of a vertical move falls
\* inside a double-width character, the caret lands right after it (read
\* here for the second cell alone).
C9_Original ==
  VerticalMoved =>
    \A i \in 0..Len(buffer[line + 1]) - 1 :
      SecondCellOfWide(i, TargetScreenColumn) => column = i + 1

\* C9 as amended: the caret lands on that character, at its own index,
\* whichever of its two cells the target is.
C9_LandsOnWide ==
  VerticalMoved =>
    \A i \in 0..Len(buffer[line + 1]) - 1 :
      InsideWide(i, TargetScreenColumn) => column = i

\* the target is the second cell of a double-width character that is not
\* the first of its line
C9_Witness ==
  /\ VerticalMoved
  /\ \E i \in 1..Len(buffer[line + 1]) - 1 :
       /\ SecondCellOfWide(i, TargetScreenColumn)
       /\ column = i

\* the case of C10: a column of an existing line, converted to a screen
\* column and back, all characters before it occupying one cell
C10_Case ==
  /\ Len(conversion) = 2
  /\ conversion[1].line < num_lines(buffer)
  /\ conversion[1].arg <= Len(buffer[conversion[1].line + 1])
  /\ \A i \in 0..conversion[1].arg - 1 :
       char_width(buffer[conversion[1].line + 1][i + 1]) = Some(1)

\* the character at the column, if there is one other than the terminator,
\* occupies at least one cell
C10_NotBeforeZeroWidth ==
  \/ conversion[1].arg >= Len(text_of(conversion[1].line))
  \/ width_at(conversion[1].line, conversion[1].arg) > 0

\* C10 as claimed: the conversion back gives the column, whatever the
\* widths of the characters at the column and after.  (SpecConvert)
C10_Original == C10_Case => conversion[2].result = Some(conversion[1].arg)

\* C10 as amended: it does unless the character at the column has zero
\* width.  (SpecConvert)
C10_RoundTrip ==
  (C10_Case /\ C10_NotBeforeZeroWidth) => conversion[2].result = Some(conversion[1].arg)

\* a column before a double-width character
C10_Witness ==
  /\ C10_Case
  /\ conversion[1].arg >= 1
  /\ conversion[1].arg < Len(text_of(conversion[1].line))
  /\ width_at(conversion[1].line, conversion[1].arg) = 2
  /\ conversion[2].result = Some(conversion[1].arg)

\* C11: on an existing line, with characters of any widths, a column
\* converted to a screen column and back is non-decreasing in the column.
\* (SpecConvert)
C11_Monotone ==
  ( /\ Len(conversion) = 4
    /\ conversion[1].line < num_lines(buffer)
    /\ conversion[1].arg <= conversion[3].arg )
  => unwrap(conversion[2].result) <= unwrap(conversion[4].result)

\* two columns of a line that holds a zero-width and a double-width
\* character, the greater of which comes back greater
C11_Witness ==
  /\ Len(conversion) = 4
  /\ conversion[1].line < num_lines(buffer)
  /\ conversion[1].arg < conversion[3].arg
  /\ \E i \in 1..Len(buffer[conversion[1].line + 1]) :
       buffer[conversion[1].line + 1][i] = "w"
  /\ \E i \in 1..Len(buffer[conversion[1].line + 1]) :
       buffer[conversion[1].line + 1][i] = "z"
  /\ unwrap(conversion[2].result) < unwrap(conversion[4].result)

\* C12: a LineUp, LineDown, CharNext or CharPrev request that finds the
\* caret on a line outside the buffer aborts.
C12_FailsFast ==
  ( /\ adjustment.kind \in Vertical \cup Horizontal
    /\ before.line >= num_lines(buffer) )
  => status = "panicked"

\* C13: for a line index outside the buffer buffer_to_screen_column
\* returns 0 and screen_to_buffer_column returns None, whatever the column;
\* for a line of the buffer screen_to_buffer_column returns a value.
\* (SpecConvert)
C13_Total ==
  \A i \in 1..Len(conversion) :
    /\ ( /\ conversion[i].line >= num_lines(buffer)
         /\ conversion[i].fn = "buffer_to_screen_column" )
       => conversion[i].result = 0
    /\ conversion[i].fn = "screen_to_buffer_column"
       => (conversion[i].line >= num_lines(buffer) <=> conversion[i].result = None)

\* screen_to_buffer_column called with a screen column greater than 0 on
\* the line index one past the last
C13_Witness ==
  /\ Len(conversion) = 1
  /\ conversion[1].fn = "screen_to_buffer_column"
  /\ conversion[1].line = num_lines(buffer)
  /\ conversion[1].arg > 0
  /\ conversion[1].result = None

\* the width of the first k characters of a line
RECURSIVE PrefixWidth(_, _)
PrefixWidth(chars, k) ==
  IF k = 0 THEN 0
  ELSE PrefixWidth(chars, k - 1)
       + (CASE chars[k] = "a" -> 1 [] chars[k] = "w" -> 2 [] OTHER -> 0)

\* the greatest number of leading characters of line l, its terminator
\* left out, whose width is at most s
LargestCount(l, s) ==
  CHOOSE k \in 0..Len(text_of(l)) :
    /\ PrefixWidth(text_of(l), k) <= s
    /\ \A j \in 0..Len(text_of(l)) : PrefixWidth(text_of(l), j) <= s => j <= k

\* C14: on a line of the buffer screen_to_buffer_column returns the
\* greatest number of leading characters, the terminator left out, whose
\* cumulative width is at most the screen column.  (SpecConvert)
C14_LargestCount ==
  \A i \in 1..Len(conversion) :
    ( /\ conversion[i].fn = "screen_to_buffer_column"
      /\ conversion[i].line < num_lines(buffer) )
    => conversion[i].result = Some(LargestCount(conversion[i].line, conversion[i].arg))

\* a screen column beyond the width of a terminated line that holds a
\* double-width character: every character but the terminator is counted
C14_Witness ==
  /\ Len(conversion) = 1
  /\ conversion[1].fn = "screen_to_buffer_column"
  /\ conversion[1].line < num_lines(buffer)
  /\ Len(text_of(conversion[1].line)) < Len(buffer[conversion[1].line + 1])
  /\ \E i \in 1..Len(text_of(conversion[1].line)) : text_of(conversion[1].line)[i] = "w"
  /\ conversion[1].arg > PrefixWidth(text_of(conversion[1].line), Len(text_of(conversion[1].line)))
  /\ conversion[1].result = Some(Len(text_of(conversion[1].line)))

BeforeValid == ValidPosition(before.line, before.column, buffer)

BeforeLength == unwrap(line_length(before.line, buffer))

\* C15: after CharNext from a valid position the line is the same and the
\* column is min(column + 1, max(0, line_length - 1)): never past the last
\* character, and unchanged at the last character of a line that lacks a
\* terminator.
C15_CharNext ==
  (status = "ok" /\ adjustment.kind = "CharNext" /\ BeforeValid) =>
    /\ line = before.line
    /\ column = Min(before.column + 1, Max(0, BeforeLength - 1))
    /\ column <= Max(0, BeforeLength - 1)
    /\ ( /\ BeforeLength >= 1
         /\ buffer[before.line + 1][BeforeLength] # NL
         /\ before.column = BeforeLength - 1 )
       => column = before.column

\* CharNext at the last character of a line that lacks a terminator
C15_Witness ==
  /\ status = "ok"
  /\ adjustment.kind = "CharNext"
  /\ BeforeValid
  /\ BeforeLength >= 2
  /\ buffer[before.line + 1][BeforeLength] # NL
  /\ before.column = BeforeLength - 1
  /\ Now = Caret(before.line, before.column, None)

\* C16: whenever a saved column is present, the caret's screen column
\* differs from it.  (SpecValid)
C16_SavedDiffers ==
  (status = "ok" /\ is_some(saved_column)) =>
    screen_column_of(Now) # unwrap(saved_column)

\* the screen column the last request, a vertical one, aimed for
Desired == unwrap_or(before.saved_column, screen_column_of(before))

\* C17: of two consecutive LineUp/LineDown requests that both change the
\* line, the second aims for the screen column the first aimed for.
\* (SpecValid)
C17_SameDesired ==
  [][ ( /\ VerticalMoved
        /\ status' = "ok"
        /\ adjustment'.kind \in Vertical
        /\ line' # line )
      => Desired' = Desired ]_vars

\* C18: after a LineUp or LineDown that changed the line, the screen
\* column of the caret is at most min(desired column, max(0, screen length
\* of the line - 1)).
C18_WithinTarget == VerticalMoved => screen_column_of(Now) <= TargetScreenColumn

\* the target is the second cell of a double-width character and the caret
\* stays on the cell before it
C18_Witness ==
  /\ VerticalMoved
  /\ \E i \in 0..Len(buffer[line + 1]) - 1 : SecondCellOfWide(i, TargetScreenColumn)
  /\ screen_column_of(Now) = TargetScreenColumn - 1

\* C19: a call of adjust either changes (line, column) and leaves line,
\* column and saved column at the values it computed, or leaves all three
\* as they were.
C19_AllOrNothing ==
  adjustment.kind # "None" =>
    IF line # before.line \/ column # before.column
    THEN LET new == new_position(adjustment, before.line, before.column,
                                 before.saved_column, buffer)
         IN  /\ ~new.panic
             /\ Now = Caret(new.line, new.column, new.saved_column)
    ELSE Now = before

\* CharPrev at column 0 with a saved column present
C19_Witness ==
  /\ status = "ok"
  /\ adjustment.kind = "CharPrev"
  /\ before.column = 0
  /\ is_some(before.saved_column)
  /\ Now = before

\* C20: from a valid position CharNext never moves the caret to the left.
\* (SpecValid)
C20_NeverLeft ==
  (status = "ok" /\ adjustment.kind = "CharNext" /\ BeforeValid) =>
    column >= before.column

====
